---- MODULE Spec2Model ----
(***************************************************************************)
(* av (Agent Versions): the interactive session picker                     *)
(* (internal/tui/picker.go), the tmux restart driver                       *)
(* (internal/tmux/tmux.go) and the restart command (cmd/av main).          *)
(*                                                                         *)
(* A session is a record; a *process.Session pointer is the index of the   *)
(* session in the scanned list `sessions`.                                 *)
(***************************************************************************)
EXTENDS Integers, Sequences, FiniteSets, TLC

VARIABLES
    sessions,     \* []*process.Session after FindAgentSessions + EnrichWithTmux
    paneTail,     \* tmux name -> the last 20 lines capture-pane shows for it
    all,          \* the restart command's --all flag
    interactive,  \* TRUE: the restart plan goes through the picker
    m,            \* the PickerModel
    quitPending,  \* Update returned tea.Quit; the quit message is not yet handled
    atConfirm,    \* observation: the sessions selected when "enter" first arrived
    lastMsg,      \* observation: the key message the running program delivered last
    pc,           \* position of the command
    toRestart,    \* the queue of sessions to restart (indices into sessions)
    qi,           \* position of the restart loop in toRestart
    step,         \* position inside RestartSession (the next send-keys, 1..8)
    sent,         \* every tmux send-keys attempted, in order
    out,          \* messages printed by Output (Info/Success/Warn)
    failures,     \* number of send-keys that failed so far
    exit,         \* what RunE returned: "running", "nil"
    psOut,        \* the lines `ps -eo pid=,tty=,command=` printed, each as its fields
    tmuxOut,      \* what `tmux list-panes -a -F ...` returned: err, or its lines
    found,        \* what FindAgentSessions returned, before EnrichWithTmux
    installedSet, \* the installed versions handed to PrintSessions
    report,       \* what PrintSessions printed and returned
    versions,     \* the version strings handed to Compare
    compared      \* what Compare returned for them

\* the state of the process scan and of the status report
statusVars == <<psOut, tmuxOut, found, installedSet, report>>

\* the state of a version comparison
compareVars == <<versions, compared>>

vars == <<sessions, paneTail, all, interactive, m, quitPending, atConfirm, lastMsg, pc,
          toRestart, qi, step, sent, out, failures, exit, statusVars, compareVars>>

----------------------------------------------------------------------------
(* Bounds of the model *)

MaxSessions == 2

MaxFailures == 1

----------------------------------------------------------------------------
(* The environment of one invocation *)

Agents == {"claude", "codex"}

GetInstalledClaude == "2.1.14"

GetInstalledCodex == "0.88.0"

RunningVersions == {"", "2.1.14", "0.88.0"}

TmuxNames == {"work", "play"}

\* an idle prompt, and a busy agent's status line
PaneTails == {"$ ", "Running... (ctrl+c to interrupt)"}

\* #{pane_current_path} of the pane of a tmux session
PanePath(name) ==
    CASE name = "work" -> "/Users/buddy/repos/foo"
      [] name = "play" -> "/tmp/play"
      [] OTHER -> ""

\* the newest <id>.jsonl under ~/.claude/projects/<project path>, "" when none
LatestJsonl(projectPath) ==
    IF projectPath = "Users-buddy-repos-foo" THEN "4f2a.jsonl" ELSE ""

\* strings.ReplaceAll(workingDir, "/", "-") with the leading dash removed
ProjectPath(workingDir) ==
    CASE workingDir = "/Users/buddy/repos/foo" -> "Users-buddy-repos-foo"
      [] workingDir = "/tmp/play" -> "tmp-play"
      [] OTHER -> workingDir

TrimJsonl(file) == IF file = "4f2a.jsonl" THEN "4f2a" ELSE file

GetSessionID(workingDir) ==
    IF workingDir = "" THEN ""
    ELSE LET latestFile == LatestJsonl(ProjectPath(workingDir))
         IN  IF latestFile = "" THEN "" ELSE TrimJsonl(latestFile)

----------------------------------------------------------------------------
(* process.Session, EnrichWithTmux *)

Session(agent, rv, tmux) ==
    [Agent |-> agent, RunningVersion |-> rv, TmuxSession |-> tmux,
     WorkingDir |-> PanePath(tmux), HasActiveWork |-> FALSE]

SessionValues ==
    {Session(a, rv, t) : a \in Agents, rv \in RunningVersions, t \in TmuxNames \cup {""}}

\* FindAgentSessions appends the claude sessions, then the codex sessions
AgentOrdered(ss) ==
    \A i, j \in 1..Len(ss) :
        (i < j /\ ss[i].Agent = "codex") => ss[j].Agent = "codex"

SessionLists ==
    {ss \in UNION {[1..n -> SessionValues] : n \in 0..MaxSessions} : AgentOrdered(ss)}

\* the tmux sessions whose pane hosts one of the agent sessions
PanesOf(ss) == {ss[i].TmuxSession : i \in 1..Len(ss)} \ {""}

----------------------------------------------------------------------------
(* tmux.HasActiveWork *)

\* the tails of PaneTails that each regular expression matches
ctrlCPattern(content) == content \in {"Running... (ctrl+c to interrupt)"}

runningPattern(content) == content \in {"Running... (ctrl+c to interrupt)"}

spinnerPattern(content) == content \in {}   \* no tail above has a spinner glyph

HasActiveWork(sessionName) ==
    IF sessionName \notin DOMAIN paneTail THEN FALSE   \* CapturePane failed
    ELSE LET content == paneTail[sessionName]
         IN  IF ctrlCPattern(content) THEN TRUE
             ELSE IF runningPattern(content) THEN TRUE
             ELSE IF spinnerPattern(content) THEN TRUE
             ELSE FALSE

----------------------------------------------------------------------------
(* tui.PickerModel *)

\* SessionItem that starts every item unselected
SessionItemUnselected(s, selected, currentVersion, disabled) ==
    [Session |-> s, Selected |-> FALSE,
     CurrentVersion |-> currentVersion, Disabled |-> disabled]

SessionItem(s, selected, currentVersion, disabled) ==
    [Session |-> s, Selected |-> selected,
     CurrentVersion |-> currentVersion, Disabled |-> disabled]

\* NeedsRestart without the test of the tmux session name
NeedsRestartAnyTerminal(s, currentVersion) ==
    s.RunningVersion # "" /\ s.RunningVersion # currentVersion

\* "Only include sessions that need restart"
NeedsRestart(s, currentVersion) ==
    s.RunningVersion # "" /\ s.RunningVersion # currentVersion /\ s.TmuxSession # ""

\* the loop of NewPicker over sessions[i..], appending to items
RECURSIVE NewPickerItems(_, _, _, _, _)
NewPickerItems(ss, i, items, installedClaude, installedCodex) ==
    IF i > Len(ss) THEN items
    ELSE LET s == ss[i]
             currentVersion ==
                 IF s.Agent = "codex" THEN installedCodex ELSE installedClaude
             disabled == s.HasActiveWork
         IN  IF NeedsRestart(s, currentVersion)
             THEN NewPickerItems(ss, i + 1,
                      Append(items, SessionItem(i, ~disabled, currentVersion, disabled)),
                      installedClaude, installedCodex)
             ELSE NewPickerItems(ss, i + 1, items, installedClaude, installedCodex)

NewPicker(ss, installedClaude, installedCodex) ==
    [items |-> NewPickerItems(ss, 1, <<>>, installedClaude, installedCodex),
     cursor |-> 0, submitted |-> FALSE, cancelled |-> FALSE,
     newVersion |-> installedClaude]

\* the zero PickerModel, before NewPicker has run
NoPicker ==
    [items |-> <<>>, cursor |-> 0, submitted |-> FALSE, cancelled |-> FALSE,
     newVersion |-> ""]

\* msg.String() of the key messages the terminal delivers: one key of every
\* case of Update ("k", "j", "x" are handled as "up", "down", " "), both quit
\* keys, and a key no case handles
Keys == {"ctrl+c", "q", "enter", "up", "down", " ", "a", "n", "tab"}

\* Toggle without the test of Disabled
ToggleAnyItem(pm) ==
    IF Len(pm.items) > 0
    THEN [pm EXCEPT !.items[pm.cursor + 1].Selected = ~pm.items[pm.cursor + 1].Selected]
    ELSE pm

\* case " ", "x": items are indexed from 0 by the cursor
Toggle(pm) ==
    IF Len(pm.items) > 0 /\ ~pm.items[pm.cursor + 1].Disabled
    THEN [pm EXCEPT !.items[pm.cursor + 1].Selected = ~pm.items[pm.cursor + 1].Selected]
    ELSE pm

\* SelectAll that does not skip disabled items
SelectAllIncludingDisabled(pm) ==
    [pm EXCEPT !.items =
        [i \in 1..Len(pm.items) |-> [pm.items[i] EXCEPT !.Selected = TRUE]]]

\* case "a"
SelectAll(pm) ==
    [pm EXCEPT !.items =
        [i \in 1..Len(pm.items) |->
            IF ~pm.items[i].Disabled
            THEN [pm.items[i] EXCEPT !.Selected = TRUE]
            ELSE pm.items[i]]]

\* case "n"
SelectNone(pm) ==
    [pm EXCEPT !.items =
        [i \in 1..Len(pm.items) |-> [pm.items[i] EXCEPT !.Selected = FALSE]]]

CursorUp(pm) ==
    IF pm.cursor > 0 THEN [pm EXCEPT !.cursor = pm.cursor - 1] ELSE pm

\* CursorDown that wraps around to the first item
CursorDownWrapAround(pm) ==
    IF pm.cursor < Len(pm.items) - 1 THEN [pm EXCEPT !.cursor = pm.cursor + 1]
    ELSE [pm EXCEPT !.cursor = 0]

CursorDown(pm) ==
    IF pm.cursor < Len(pm.items) - 1 THEN [pm EXCEPT !.cursor = pm.cursor + 1] ELSE pm

\* PickerModel.Update on a tea.KeyMsg: the new model and the command returned
Update(pm, msg) ==
    CASE msg \in {"ctrl+c", "q"} ->
            [model |-> [pm EXCEPT !.cancelled = TRUE], cmd |-> "tea.Quit"]
      [] msg = "enter" ->
            [model |-> [pm EXCEPT !.submitted = TRUE], cmd |-> "tea.Quit"]
      [] msg \in {"up", "k"} -> [model |-> CursorUp(pm), cmd |-> "nil"]
      [] msg \in {"down", "j"} -> [model |-> CursorDown(pm), cmd |-> "nil"]
      [] msg \in {" ", "x"} -> [model |-> Toggle(pm), cmd |-> "nil"]
      [] msg = "a" -> [model |-> SelectAll(pm), cmd |-> "nil"]
      [] msg = "n" -> [model |-> SelectNone(pm), cmd |-> "nil"]
      [] OTHER -> [model |-> pm, cmd |-> "nil"]

\* Cancelled that never reports the quit
CancelledNever(pm) == FALSE

Cancelled(pm) == pm.cancelled

RECURSIVE SelectedFrom(_, _, _)
SelectedFrom(items, i, selected) ==
    IF i > Len(items) THEN selected
    ELSE IF items[i].Selected
         THEN SelectedFrom(items, i + 1, Append(selected, items[i].Session))
         ELSE SelectedFrom(items, i + 1, selected)

SelectedSessions(pm) == SelectedFrom(pm.items, 1, <<>>)

----------------------------------------------------------------------------
(* tmux.RestartSession, one send-keys at a time *)

KnownAgent(agent) == agent \in {"claude", "codex"}

\* the switch on agent that builds the resume command
ResumeCommand(agent) ==
    CASE agent = "claude" -> "claude --continue"
      [] agent = "codex" -> "codex --continue"
      [] OTHER -> ""

\* the keys of the step-th sendKeys call of RestartSession
RestartKeys(k, agent) ==
    CASE k \in 1..3 -> "C-c"
      [] k = 4 -> "C-u"
      [] k = 5 -> "exit"
      [] k = 6 -> "Enter"
      [] k = 7 -> ResumeCommand(agent)
      [] OTHER -> "Enter"

LastStep == 8

\* AfterSend that drops the error of sendKeys
AfterSendIgnoringError(k, ok) ==
    IF k = LastStep THEN "return nil" ELSE "next"

\* what RestartSession does after the k-th sendKeys returned ok / not ok
AfterSend(k, ok) ==
    IF ~ok THEN "return err"
    ELSE IF k = LastStep THEN "return nil"
    ELSE "next"

sendKeys(q, sessionName, keys, ok) ==
    [q |-> q, target |-> sessionName, keys |-> keys, ok |-> ok]

----------------------------------------------------------------------------
(* Output *)

Warn(q, name) == [stream |-> "stderr", kind |-> "warn", q |-> q, name |-> name]

Success(q, name) == [stream |-> "stdout", kind |-> "ok", q |-> q, name |-> name]

Info(n) == [stream |-> "stdout", kind |-> "info", q |-> 0, name |-> "Restarting"]

----------------------------------------------------------------------------
(* the restart command *)

\* the loop of newRestartCmd that fills toRestart from sessions[i..]
RECURSIVE ToRestartFrom(_, _, _, _, _, _)
ToRestartFrom(ss, i, queue, allFlag, claudeInstalled, codexInstalled) ==
    IF i > Len(ss) THEN queue
    ELSE LET s == ss[i]
             currentVersion ==
                 IF s.Agent = "codex" THEN codexInstalled ELSE claudeInstalled
         IN  IF s.TmuxSession = ""
             THEN ToRestartFrom(ss, i + 1, queue, allFlag, claudeInstalled, codexInstalled)
             ELSE IF allFlag \/ s.RunningVersion # currentVersion
             THEN ToRestartFrom(ss, i + 1, Append(queue, i), allFlag,
                                claudeInstalled, codexInstalled)
             ELSE ToRestartFrom(ss, i + 1, queue, allFlag, claudeInstalled, codexInstalled)

\* LoopNext that returns the first error of RestartSession
LoopNextStopOnError(q, n, err) ==
    IF err THEN "return err"
    ELSE IF q < n THEN "next session" ELSE "return nil"

\* where the restart loop goes after RestartSession returned (err: with an
\* error) for toRestart[q], the q-th of n queued sessions
LoopNext(q, n, err) == IF q < n THEN "next session" ELSE "return nil"

\* NextPosition of a driver that sends each step to every queued session
\* before the next step
NextPositionRoundRobin(q, k, n, after) ==
    IF after = "next"
    THEN [qi |-> IF q < n THEN q + 1 ELSE 1, step |-> IF q < n THEN k ELSE k + 1,
          pc |-> "restarting", exit |-> "running"]
    ELSE IF q < n
         THEN [qi |-> q + 1, step |-> 1, pc |-> "restarting", exit |-> "running"]
         ELSE [qi |-> q, step |-> k, pc |-> "done", exit |-> "nil"]

\* the position of the command after a sendKeys of the k-th step for
\* toRestart[q]; after is what RestartSession does next
NextPosition(q, k, n, after) ==
    IF after = "next"
    THEN [qi |-> q, step |-> k + 1, pc |-> "restarting", exit |-> "running"]
    ELSE LET loop == LoopNext(q, n, after = "return err")
         IN  CASE loop = "next session" ->
                    [qi |-> q + 1, step |-> 1, pc |-> "restarting", exit |-> "running"]
               [] loop = "return nil" ->
                    [qi |-> q, step |-> k, pc |-> "done", exit |-> "nil"]
               [] OTHER ->
                    [qi |-> q, step |-> k, pc |-> "done", exit |-> "err"]

\* no report printed yet
NoReport == [rows |-> <<>>, needsRestart |-> 0]

\* the restart command's sessions are already scanned; it prints no report
NoScan ==
    /\ psOut = <<>>
    /\ tmuxOut = [err |-> FALSE, lines |-> <<>>]
    /\ found = <<>>
    /\ installedSet = [claude |-> GetInstalledClaude, codex |-> GetInstalledCodex]
    /\ report = NoReport

\* no version comparison under way
NoCompare ==
    /\ versions = <<>>
    /\ compared = <<>>

Init ==
    /\ sessions \in SessionLists
    /\ paneTail \in [PanesOf(sessions) -> PaneTails]
    /\ all \in BOOLEAN
    /\ interactive \in BOOLEAN
    /\ interactive => ~all
    /\ m = NoPicker
    /\ quitPending = FALSE
    /\ atConfirm = <<>>
    /\ lastMsg = ""
    /\ pc = "start"
    /\ toRestart = <<>>
    /\ qi = 0
    /\ step = 0
    /\ sent = <<>>
    /\ out = <<>>
    /\ failures = 0
    /\ exit = "running"
    /\ NoScan
    /\ NoCompare

\* newRestartCmd's RunE up to the restart loop
RunRestartCmd ==
    /\ UNCHANGED <<statusVars, compareVars>>
    /\ pc = "start"
    /\ ~interactive
    /\ LET queue == ToRestartFrom(sessions, 1, <<>>, all,
                                  GetInstalledClaude, GetInstalledCodex)
       IN  /\ toRestart' = queue
           /\ IF Len(queue) = 0
              THEN /\ out' = Append(out, Success(0, "All sessions are up to date"))
                   /\ pc' = "done"
                   /\ exit' = "nil"
                   /\ UNCHANGED <<qi, step>>
              ELSE /\ out' = Append(out, Info(Len(queue)))
                   /\ pc' = "restarting"
                   /\ qi' = 1
                   /\ step' = 1
                   /\ UNCHANGED exit
    /\ UNCHANGED <<sessions, paneTail, all, interactive, m, quitPending, atConfirm,
                   lastMsg, sent, failures>>

\* one sendKeys of RestartSession(toRestart[qi]) and what follows it in the loop
RestartStep ==
    /\ UNCHANGED <<statusVars, compareVars>>
    /\ pc = "restarting"
    /\ LET s == sessions[toRestart[qi]]
           n == Len(toRestart)
           goto(after, msg) ==
               LET pos == NextPosition(qi, step, n, after)
               IN  /\ out' = IF after = "next" THEN out ELSE Append(out, msg)
                   /\ qi' = pos.qi
                   /\ step' = pos.step
                   /\ pc' = pos.pc
                   /\ exit' = pos.exit
       IN  IF step = 7 /\ ~KnownAgent(s.Agent)
           THEN /\ goto("return err", Warn(qi, s.TmuxSession))
                /\ UNCHANGED <<sent, failures>>
           ELSE \E ok \in BOOLEAN :
                /\ ~ok => failures < MaxFailures
                /\ sent' = Append(sent, sendKeys(qi, s.TmuxSession,
                                                 RestartKeys(step, s.Agent), ok))
                /\ failures' = IF ok THEN failures ELSE failures + 1
                /\ LET after == AfterSend(step, ok)
                   IN  goto(after, IF after = "return nil"
                                   THEN Success(qi, s.TmuxSession)
                                   ELSE Warn(qi, s.TmuxSession))
    /\ UNCHANGED <<sessions, paneTail, all, interactive, m, quitPending, atConfirm,
                   lastMsg, toRestart>>

----------------------------------------------------------------------------
(* the picker run by the restart command *)

Classify(ss) ==
    [i \in 1..Len(ss) |->
        [ss[i] EXCEPT !.HasActiveWork =
            ss[i].TmuxSession # "" /\ HasActiveWork(ss[i].TmuxSession)]]

\* classify the sessions, build the picker, start the program
RunPicker ==
    /\ UNCHANGED <<statusVars, compareVars>>
    /\ pc = "start"
    /\ interactive
    /\ LET classified == Classify(sessions)
           picker == NewPicker(classified, GetInstalledClaude, GetInstalledCodex)
       IN  /\ sessions' = classified
           /\ m' = picker
           /\ IF Len(picker.items) = 0
              THEN pc' = "done" /\ exit' = "nil"
              ELSE pc' = "picking" /\ UNCHANGED exit
    /\ UNCHANGED <<paneTail, all, interactive, quitPending, atConfirm, lastMsg,
                   toRestart, qi, step, sent, out, failures>>

\* the program delivers one key message to Update
PickerKey ==
    /\ UNCHANGED <<statusVars, compareVars>>
    /\ pc = "picking"
    /\ \E msg \in Keys :
         LET r == Update(m, msg)
         IN  /\ m' = r.model
             /\ quitPending' = (quitPending \/ r.cmd = "tea.Quit")
             /\ atConfirm' = IF msg = "enter" /\ ~m.submitted
                             THEN SelectedSessions(m) ELSE atConfirm
             /\ lastMsg' = msg
    /\ UNCHANGED <<sessions, paneTail, all, interactive, pc, toRestart, qi, step,
                   sent, out, failures, exit>>

\* the program handles the quit message and returns the final model
TeaQuit ==
    /\ UNCHANGED <<statusVars, compareVars>>
    /\ pc = "picking"
    /\ quitPending
    /\ pc' = "picked"
    /\ quitPending' = FALSE
    /\ lastMsg' = ""
    /\ UNCHANGED <<sessions, paneTail, all, interactive, m, atConfirm,
                   toRestart, qi, step, sent, out, failures, exit>>

\* the caller reads the picker's outcome
AfterPicker ==
    /\ UNCHANGED <<statusVars, compareVars>>
    /\ pc = "picked"
    /\ IF Cancelled(m)
       THEN /\ pc' = "done"
            /\ exit' = "nil"
            /\ UNCHANGED <<toRestart, qi, step, out>>
       ELSE LET queue == SelectedSessions(m)
            IN  /\ toRestart' = queue
                /\ IF Len(queue) = 0
                   THEN /\ pc' = "done"
                        /\ exit' = "nil"
                        /\ UNCHANGED <<qi, step, out>>
                   ELSE /\ out' = Append(out, Info(Len(queue)))
                        /\ pc' = "restarting"
                        /\ qi' = 1
                        /\ step' = 1
                        /\ UNCHANGED exit
    /\ UNCHANGED <<sessions, paneTail, all, interactive, m, quitPending, atConfirm,
                   lastMsg, sent, failures>>

Next ==
    \/ RunRestartCmd
    \/ RestartStep
    \/ RunPicker
    \/ PickerKey
    \/ TeaQuit
    \/ AfterPicker

Spec == Init /\ [][Next]_vars

----------------------------------------------------------------------------
(* Observations used by the properties *)

\* the session pointers held by the picker's items, in item order
ItemSessions(items) == [i \in 1..Len(items) |-> items[i].Session]

\* the status of the Staleness Reconciler
Status(s) ==
    LET installed == IF s.Agent = "codex" THEN GetInstalledCodex ELSE GetInstalledClaude
    IN  IF s.RunningVersion = "" THEN "UNKNOWN"
        ELSE IF s.RunningVersion = installed THEN "CURRENT"
        ELSE IF s.TmuxSession # "" THEN "OUTDATED-restartable"
        ELSE "OUTDATED-detection-only"

\* the elements of a finite set of integers, in increasing order
RECURSIVE Ascending(_)
Ascending(S) ==
    IF S = {} THEN <<>>
    ELSE LET top == CHOOSE x \in S : \A y \in S : y <= x
         IN  Append(Ascending(S \ {top}), top)

OutdatedRestartable(s) == Status(s) = "OUTDATED-restartable"

\* the sends of `sent` that belong to the restart of the q-th queued session
SentFor(q) == SelectSeq(sent, LAMBDA e : e.q = q)

KeysOf(es) == [i \in 1..Len(es) |-> es[i].keys]

\* the queue positions whose RestartSession has returned
Returned == IF pc = "done" THEN 1..Len(toRestart)
            ELSE IF pc = "restarting" THEN 1..(qi - 1) ELSE {}

Warned == {out[i].q : i \in {j \in 1..Len(out) : out[j].kind = "warn"}}

Succeeded == {out[i].q : i \in {j \in 1..Len(out) : out[j].kind = "ok" /\ out[j].q > 0}}

Failed == {sent[i].q : i \in {j \in 1..Len(sent) : ~sent[j].ok}}

----------------------------------------------------------------------------
(* Properties *)

\* C1: in every state of the picker, an item whose session was classified
\* active is disabled and not selected, so that SelectedSessions never holds
\* an active session.
C1_ActiveNeverSelected ==
    /\ \A i \in 1..Len(m.items) :
          sessions[m.items[i].Session].HasActiveWork =>
              (m.items[i].Disabled /\ ~m.items[i].Selected)
    /\ \A k \in 1..Len(SelectedSessions(m)) :
          ~sessions[SelectedSessions(m)[k]].HasActiveWork

\* a toggle or a select-all was delivered with an active item under the cursor
C1_Witness ==
    /\ Len(m.items) > 1
    /\ lastMsg \in {" ", "a"}
    /\ sessions[m.items[m.cursor + 1].Session].HasActiveWork
    /\ \E i \in 1..Len(m.items) : m.items[i].Selected

\* C2: the picker's items are exactly the OUTDATED-restartable sessions, in
\* input order, whatever events have been delivered since NewPicker.
C2_ItemsAreOutdatedRestartable ==
    (interactive /\ pc # "start") =>
        ItemSessions(m.items) =
            Ascending({i \in 1..Len(sessions) : OutdatedRestartable(sessions[i])})

\* one outdated session with a pane is an item, an outdated one without a pane
\* is not, and events have been delivered
C2_Witness ==
    /\ Len(m.items) = 1
    /\ \E i \in 1..Len(sessions) : Status(sessions[i]) = "OUTDATED-detection-only"
    /\ lastMsg = "n"
    /\ m.submitted

\* C3: when the user quit the picker, no keystroke is sent to any tmux session
\* at any point of the invocation, whatever was selected.
C3_CancelledSendsNothing ==
    m.cancelled => (sent = <<>> /\ toRestart = <<>>)

\* the command has ended after a quit with an item still selected
C3_Witness ==
    /\ pc = "done"
    /\ m.cancelled
    /\ ~m.submitted
    /\ SelectedSessions(m) # <<>>

\* C4 (as claimed): after a confirmation the sessions restarted are exactly the
\* sessions selected at the moment of confirmation, each once, in item order.
C4_RestartsWhatWasConfirmed ==
    (pc = "done" /\ m.submitted) =>
        /\ toRestart = atConfirm
        /\ \A k \in 1..Len(atConfirm) :
              /\ Len(SentFor(k)) > 0
              /\ \A i \in 1..Len(SentFor(k)) :
                    SentFor(k)[i].target = sessions[atConfirm[k]].TmuxSession

\* C5 (as claimed): once submitted or cancelled, no key message delivered to
\* Update changes the picker (cursor, selected flags, submitted, cancelled).
C5_TerminalStatesAreFinal ==
    [][(m.submitted \/ m.cancelled) => (m' = m)]_vars

\* C6: a failed send is the last send of its restart, and that restart is
\* reported as failed and never as done.
C6_AbortOnFirstFailure ==
    \A i \in 1..Len(sent) :
        ~sent[i].ok =>
            /\ \A j \in (i + 1)..Len(sent) : sent[j].q # sent[i].q
            /\ sent[i].q \in Returned =>
                  (sent[i].q \in Warned /\ sent[i].q \notin Succeeded)

\* a send failed before the last step, and the next session's restart went on
C6_Witness ==
    /\ \E i \in 1..Len(sent) : ~sent[i].ok /\ sent[i].keys = "C-u" /\ sent[i].q = 1
    /\ \E j \in 1..Len(sent) : sent[j].q = 2 /\ sent[j].keys = "exit"

\* C7: whatever sends fail, every queued session's restart is attempted, each
\* failed session gets a warning, and the command returns nil.
C7_FailuresArePerSession ==
    (pc = "done" /\ toRestart # <<>>) =>
        /\ \A q \in 1..Len(toRestart) :
              /\ Len(SentFor(q)) > 0
              /\ SentFor(q)[1].keys = "C-c"
              /\ SentFor(q)[1].target = sessions[toRestart[q]].TmuxSession
        /\ Warned = Failed
        /\ exit = "nil"

\* the first of two queued sessions failed, the second was restarted
C7_Witness ==
    /\ pc = "done"
    /\ Len(toRestart) = 2
    /\ 1 \in Failed
    /\ Warned = {1}
    /\ Succeeded = {2}

\* the resume command of the claim: by session id when one is resolved
ClaimedResume(s) ==
    IF s.Agent = "claude"
    THEN IF GetSessionID(s.WorkingDir) # ""
         THEN "claude --resume " \o GetSessionID(s.WorkingDir)
         ELSE "claude --continue"
    ELSE "codex --continue"

\* C8 (as claimed): a restart whose sends all succeed sends exactly C-c, C-c,
\* C-c, C-u, exit, Enter, the resume command (by session id when one is
\* resolved), Enter.
C8_KeystrokeSequence ==
    \A q \in Succeeded :
        KeysOf(SentFor(q)) =
            <<"C-c", "C-c", "C-c", "C-u", "exit", "Enter",
              ClaimedResume(sessions[toRestart[q]]), "Enter">>

\* C9: the sends of one queued session all precede the sends of the next one,
\* and each goes to the tmux session of the queued session it belongs to.
C9_RestartsAreSequential ==
    /\ \A i \in 1..(Len(sent) - 1) : sent[i].q <= sent[i + 1].q
    /\ \A i \in 1..Len(sent) :
          sent[i].target = sessions[toRestart[sent[i].q]].TmuxSession

\* two sessions in different tmux sessions were both restarted
C9_Witness ==
    /\ pc = "done"
    /\ Succeeded = {1, 2}
    /\ sessions[toRestart[1]].TmuxSession # sessions[toRestart[2]].TmuxSession

\* C10 (as claimed): with --all no keystroke goes to a session that the
\* activity classifier classifies active.
C10_AllSparesActiveSessions ==
    all => \A i \in 1..Len(sent) : sent[i].ok => ~HasActiveWork(sent[i].target)

----------------------------------------------------------------------------
(* the status report: Output.PrintSessions and the hint of runStatus *)

\* PrintStatus that compares the running version as it is stored
PrintStatusRawVersion(s, claudeInstalled, codexInstalled) ==
    LET version == s.RunningVersion
        currentVersion == IF s.Agent = "codex" THEN codexInstalled ELSE claudeInstalled
    IN  [version |-> version,
         status |-> IF version = currentVersion THEN "[current]"
                    ELSE IF version = "" THEN "[unknown]"
                    ELSE IF s.TmuxSession = "" THEN "[outdated, no tmux]"
                    ELSE "[restart needed]"]

\* the VERSION and STATUS columns PrintSessions prints for s (plain mode)
PrintStatus(s, claudeInstalled, codexInstalled) ==
    LET version == IF s.RunningVersion = "" THEN "?" ELSE s.RunningVersion
        currentVersion == IF s.Agent = "codex" THEN codexInstalled ELSE claudeInstalled
    IN  [version |-> version,
         status |-> IF version = currentVersion THEN "[current]"
                    ELSE IF version = "?" THEN "[unknown]"
                    ELSE IF s.TmuxSession = "" THEN "[outdated, no tmux]"
                    ELSE "[restart needed]"]

\* the statuses at which PrintSessions increments needsRestart
CountsAsNeedsRestart(status) == status \in {"[outdated, no tmux]", "[restart needed]"}

\* the loop of PrintSessions over sessions[i..]
RECURSIVE PrintSessionsFrom(_, _, _, _, _, _)
PrintSessionsFrom(ss, i, rows, needsRestart, claudeInstalled, codexInstalled) ==
    IF i > Len(ss) THEN [rows |-> rows, needsRestart |-> needsRestart]
    ELSE LET row == PrintStatus(ss[i], claudeInstalled, codexInstalled)
         IN  PrintSessionsFrom(ss, i + 1, Append(rows, row),
                 IF CountsAsNeedsRestart(row.status)
                 THEN needsRestart + 1 ELSE needsRestart,
                 claudeInstalled, codexInstalled)

PrintSessions(ss, claudeInstalled, codexInstalled) ==
    IF Len(ss) = 0 THEN NoReport
    ELSE PrintSessionsFrom(ss, 1, <<>>, 0, claudeInstalled, codexInstalled)

\* "N session(s) need restart. Run `av restart` to update them."
Hint(n) == [stream |-> "stdout", kind |-> "hint", q |-> n, name |-> "need restart"]

\* what GetInstalledClaude and GetInstalledCodex can return: "" on failure
InstalledVersions == {"", "2.1.14", "0.88.0"}

\* runStatus on scanned sessions, with any installed versions
InitStatus ==
    /\ sessions \in SessionLists
    /\ paneTail = [n \in PanesOf(sessions) |-> "$ "]
    /\ all = FALSE
    /\ interactive = FALSE
    /\ m = NoPicker
    /\ quitPending = FALSE
    /\ atConfirm = <<>>
    /\ lastMsg = ""
    /\ pc = "start"
    /\ toRestart = <<>>
    /\ qi = 0
    /\ step = 0
    /\ sent = <<>>
    /\ out = <<>>
    /\ failures = 0
    /\ exit = "running"
    /\ psOut = <<>>
    /\ tmuxOut = [err |-> FALSE, lines |-> <<>>]
    /\ found = <<>>
    /\ installedSet \in [claude : InstalledVersions, codex : InstalledVersions]
    /\ report = NoReport
    /\ NoCompare

\* runStatus from "Running Sessions" on: the table, then the hint
RunStatus ==
    /\ pc = "start"
    /\ LET r == PrintSessions(sessions, installedSet.claude, installedSet.codex)
       IN  /\ report' = r
           /\ out' = IF r.needsRestart > 0
                     THEN Append(out, Hint(r.needsRestart)) ELSE out
    /\ pc' = "done"
    /\ exit' = "nil"
    /\ UNCHANGED <<sessions, paneTail, all, interactive, m, quitPending, atConfirm,
                   lastMsg, toRestart, qi, step, sent, failures,
                   psOut, tmuxOut, found, installedSet, compareVars>>

NextStatus == RunStatus

StatusSpec == InitStatus /\ [][NextStatus]_vars

\* the status the Staleness Reconciler is to assign to s
StatusGiven(s, claudeInstalled, codexInstalled) ==
    LET currentVersion == IF s.Agent = "codex" THEN codexInstalled ELSE claudeInstalled
    IN  IF s.RunningVersion = "" THEN "UNKNOWN"
        ELSE IF s.RunningVersion = currentVersion THEN "CURRENT"
        ELSE IF s.TmuxSession # "" THEN "OUTDATED-restartable"
        ELSE "OUTDATED-detection-only"

\* the label PrintSessions prints for a status
LabelOf(status) ==
    CASE status = "UNKNOWN" -> "[unknown]"
      [] status = "CURRENT" -> "[current]"
      [] status = "OUTDATED-restartable" -> "[restart needed]"
      [] OTHER -> "[outdated, no tmux]"

\* the sessions of the report whose row reads "[restart needed]"
ReportedRestartable ==
    {i \in 1..Len(report.rows) : report.rows[i].status = "[restart needed]"}

\* C11: the status report gives every session the one status that follows
\* from its running version, the installed version of its agent and its tmux
\* session name: unknown iff the running version is empty (whatever is
\* installed), current iff it is non-empty and equal to the installed one,
\* otherwise outdated, "restart needed" iff the session has a tmux name; and
\* the sessions reported "restart needed" are exactly the picker's items.
C11_StatusDecision ==
    pc = "done" =>
        /\ Len(report.rows) = Len(sessions)
        /\ \A i \in 1..Len(sessions) :
              report.rows[i].status =
                  LabelOf(StatusGiven(sessions[i], installedSet.claude,
                                      installedSet.codex))
        /\ ItemSessions(NewPicker(sessions, installedSet.claude,
                                  installedSet.codex).items)
              = Ascending(ReportedRestartable)

\* a report with an unknown session of an agent that is not installed, and an
\* outdated session in tmux
C11_Witness ==
    /\ pc = "done"
    /\ \E i \in 1..Len(sessions) :
          /\ sessions[i].RunningVersion = ""
          /\ installedSet[sessions[i].Agent] = ""
          /\ report.rows[i].status = "[unknown]"
    /\ ReportedRestartable # {}

\* C12: the number PrintSessions returns, which the hint "N session(s) need
\* restart" prints, is the number of OUTDATED-restartable sessions: outdated
\* sessions without a tmux name, current and unknown sessions are not counted.
C12_HintCountsRestartable ==
    pc = "done" =>
        report.needsRestart =
            Cardinality({i \in 1..Len(sessions) :
                StatusGiven(sessions[i], installedSet.claude, installedSet.codex)
                    = "OUTDATED-restartable"})

----------------------------------------------------------------------------
(* the scan: process.FindAgentSessions, tmux.GetPanes, process.EnrichWithTmux *)

\* the longest process listing and the longest pane listing of the model
MaxProcs == 2

MaxPanes == 1

\* the TTY column of ps: no terminal ("" or "?" or "??"), or a device
TTYs == {"", "?", "??", "ttys001", "ttys002"}

\* the COMMAND column of ps, as its words
Argvs == {<<"claude">>, <<"claude", "--continue">>, <<"codex">>}

\* the pid of the process on line i of the listing
PidOfLine(i) == 100 + i

\* the processes ps can list on line i
ProcsOfLine(i) == [pid : {PidOfLine(i)}, tty : TTYs, argv : Argvs]

\* the listings of exactly n processes
RECURSIVE PsListings(_)
PsListings(n) ==
    IF n = 0 THEN {<<>>}
    ELSE {Append(l, p) : l \in PsListings(n - 1), p \in ProcsOfLine(n)}

\* "%d" of a pid, as ps prints it
FormatPid(pid) ==
    CASE pid = 101 -> "101" [] pid = 102 -> "102"
      [] pid = 103 -> "103" [] pid = 104 -> "104"
      [] OTHER -> "0"

\* fmt.Sscanf(field, "%d", &pid): 0 when the field is no number
ScanPid(field) ==
    CASE field = "101" -> 101 [] field = "102" -> 102
      [] field = "103" -> 103 [] field = "104" -> 104
      [] OTHER -> 0

\* strings.Fields of the line ps prints for p: an empty TTY column leaves no field
PsFields(p) ==
    <<FormatPid(p.pid)>> \o (IF p.tty = "" THEN <<>> ELSE <<p.tty>>) \o p.argv

\* strings.Join(parts, sep)
RECURSIVE Join(_, _)
Join(parts, sep) ==
    IF Len(parts) = 0 THEN ""
    ELSE IF Len(parts) = 1 THEN parts[1]
    ELSE parts[1] \o sep \o Join(Tail(parts), sep)

\* the version in the path of the binary the children of pid run; "" if none
findRunningVersion(pid, agent) ==
    CASE pid = 101 -> "2.1.11"
      [] pid = 102 -> "2.1.14"
      [] pid = 104 -> "0.88.0"
      [] OTHER -> ""

\* the Session findProcesses appends
FoundSession(pid, agent, tty, command) ==
    [PID |-> pid, Agent |-> agent, TTY |-> tty,
     RunningVersion |-> findRunningVersion(pid, agent),
     TmuxSession |-> "", WorkingDir |-> "", Command |-> command,
     HasActiveWork |-> FALSE]

\* SeenBefore of a locator that keeps every process of a terminal
SeenBeforeNever(seenTTYs, tty) == FALSE

\* "Skip duplicate TTYs (keep first/main process)"
SeenBefore(seenTTYs, tty) == tty \in seenTTYs

\* the loop of findProcesses over the lines [i..] of the listing
RECURSIVE findProcessesFrom(_, _, _, _, _)
findProcessesFrom(agent, listing, i, result, seenTTYs) ==
    IF i > Len(listing) THEN result
    ELSE LET fields == PsFields(listing[i])
             skip == findProcessesFrom(agent, listing, i + 1, result, seenTTYs)
         IN  IF Len(fields) < 3 THEN skip
             ELSE LET pid == ScanPid(fields[1])
                      tty == fields[2]
                      cmdParts == SubSeq(fields, 3, Len(fields))
                      command == Join(cmdParts, " ")
                  IN  IF cmdParts[1] # agent THEN skip
                      ELSE IF tty = "??" \/ tty = "" THEN skip
                      ELSE IF SeenBefore(seenTTYs, tty) THEN skip
                      ELSE findProcessesFrom(agent, listing, i + 1,
                               Append(result, FoundSession(pid, agent, tty, command)),
                               seenTTYs \cup {tty})

findProcesses(agent, listing) == findProcessesFrom(agent, listing, 1, <<>>, {})

FindAgentSessions(listing) ==
    findProcesses("claude", listing) \o findProcesses("codex", listing)

\* lines of `tmux list-panes -a -F "#{pane_tty}:#{session_name}:#{pane_current_path}"`,
\* each as the pieces between its colons: two panes, the second with a colon
\* in its path; a line whose first piece lacks "/dev/"; a line cut short
PaneLines ==
    {<<"/dev/ttys001", "work", "/Users/buddy/repos/foo">>,
     <<"/dev/ttys002", "play", "/tmp/a", "b">>,
     <<"ttys001", "play", "/tmp/play">>,
     <<"/dev/ttys001", "work">>}

\* the pane listings of exactly n lines
RECURSIVE PaneListings(_)
PaneListings(n) ==
    IF n = 0 THEN {<<>>}
    ELSE {Append(l, p) : l \in PaneListings(n - 1), p \in PaneLines}

\* strings.SplitN(line, ":", n) of a line given as the pieces between its colons
SplitN(pieces, n) ==
    IF Len(pieces) <= n THEN pieces
    ELSE Append(SubSeq(pieces, 1, n - 1), Join(SubSeq(pieces, n, Len(pieces)), ":"))

TmuxPane(tty, session, path) == [TTY |-> tty, Session |-> session, Path |-> path]

\* panes[key] = pane
PutPane(panes, key, pane) ==
    [k \in DOMAIN panes \cup {key} |-> IF k = key THEN pane ELSE panes[k]]

\* the loop of GetPanes over the lines [i..]
RECURSIVE GetPanesFrom(_, _, _)
GetPanesFrom(lines, i, panes) ==
    IF i > Len(lines) THEN panes
    ELSE LET parts == SplitN(lines[i], 3)
         IN  IF lines[i] = <<"">> \/ Len(parts) < 3
             THEN GetPanesFrom(lines, i + 1, panes)
             ELSE GetPanesFrom(lines, i + 1,
                      PutPane(panes, parts[1], TmuxPane(parts[1], parts[2], parts[3])))

\* GetPanes that reads the output also when tmux failed
GetPanesIgnoringError(o) == GetPanesFrom(o.lines, 1, <<>>)

\* the map of TTY -> TmuxPane; empty when the command failed
GetPanes(o) ==
    IF o.err THEN <<>> ELSE GetPanesFrom(o.lines, 1, <<>>)

\* ttyPath := "/dev/" + s.TTY
TtyPath(s) == "/dev/" \o s.TTY

EnrichWithTmux(ss, panes) ==
    [i \in 1..Len(ss) |->
        LET ttyPath == TtyPath(ss[i])
        IN  IF ttyPath \in DOMAIN panes
            THEN [ss[i] EXCEPT !.TmuxSession = panes[ttyPath].Session,
                               !.WorkingDir = panes[ttyPath].Path]
            ELSE ss[i]]

\* an invocation of av (status) or of av restart [--all], before the scan
InitScan ==
    /\ psOut \in UNION {PsListings(n) : n \in 0..MaxProcs}
    /\ tmuxOut \in [err : BOOLEAN, lines : UNION {PaneListings(n) : n \in 0..MaxPanes}]
    /\ all \in BOOLEAN
    /\ sessions = <<>>
    /\ found = <<>>
    /\ installedSet = [claude |-> GetInstalledClaude, codex |-> GetInstalledCodex]
    /\ report = NoReport
    /\ pc = "scan"
    /\ paneTail = <<>>
    /\ interactive = FALSE
    /\ m = NoPicker
    /\ quitPending = FALSE
    /\ atConfirm = <<>>
    /\ lastMsg = ""
    /\ toRestart = <<>>
    /\ qi = 0
    /\ step = 0
    /\ sent = <<>>
    /\ out = <<>>
    /\ failures = 0
    /\ exit = "running"
    /\ NoCompare

\* sessions := FindAgentSessions(); panes := GetPanes(); EnrichWithTmux(sessions, panes)
Scan ==
    /\ pc = "scan"
    /\ found' = FindAgentSessions(psOut)
    /\ sessions' = EnrichWithTmux(found', GetPanes(tmuxOut))
    /\ pc' = "start"
    /\ UNCHANGED <<paneTail, all, interactive, m, quitPending, atConfirm, lastMsg,
                   toRestart, qi, step, sent, out, failures, exit,
                   psOut, tmuxOut, installedSet, report, compareVars>>

NextScan ==
    \/ Scan
    \/ RunStatus
    \/ RunRestartCmd
    \/ RestartStep

ScanSpec == InitScan /\ [][NextScan]_vars

\* the lines of the listing that show a process of agent on terminal tty
MatchingLines(agent, tty) ==
    {j \in 1..Len(psOut) : psOut[j].argv[1] = agent /\ psOut[j].tty = tty}

\* the sessions of agent among those found
FoundOf(agent) == {i \in 1..Len(found) : found[i].Agent = agent}

\* what the TTY column shows for a process without a controlling terminal
NoTerminal == {"", "?", "??"}

\* C13: for each agent the locator returns at most one session per terminal
\* device; that session carries the pid and the command line of the first
\* listed process of the agent on that device; and the processes of the agent
\* that share one device, however many, yield exactly one session.
C13_OneSessionPerTerminal ==
    pc # "scan" =>
        \A a \in Agents :
            /\ \A i, j \in FoundOf(a) : found[i].TTY = found[j].TTY => i = j
            /\ \A i \in FoundOf(a) :
                  LET ls == MatchingLines(a, found[i].TTY)
                  IN  /\ ls # {}
                      /\ LET first == CHOOSE j \in ls : \A k \in ls : j <= k
                         IN  /\ found[i].PID = psOut[first].pid
                             /\ found[i].Command = Join(psOut[first].argv, " ")
            /\ \A d \in TTYs \ NoTerminal :
                  MatchingLines(a, d) # {} =>
                      Cardinality({i \in FoundOf(a) : found[i].TTY = d}) = 1

\* two claude processes on ttys001 gave one session, that of the first
C13_Witness ==
    /\ pc # "scan"
    /\ Cardinality(MatchingLines("claude", "ttys001")) > 1
    /\ psOut[1].argv # psOut[2].argv
    /\ Len(found) = 1
    /\ found[1].PID = psOut[1].pid
    /\ found[1].Command = "claude --continue"

\* C14: no session the locator returns lacks a terminal device, whichever
\* marker ps printed for "no controlling terminal": nothing, "?" or "??".
C14_NoSessionWithoutTerminal ==
    pc # "scan" => \A i \in 1..Len(found) : found[i].TTY \notin NoTerminal

\* tmux list-panes failed, or printed nothing
TmuxUnavailable == tmuxOut.err \/ tmuxOut.lines = <<>>

\* some line of list-panes has all three parts and starts with key
PaneEntryExists(key) ==
    \E k \in 1..Len(tmuxOut.lines) :
        Len(tmuxOut.lines[k]) >= 3 /\ tmuxOut.lines[k][1] = key

\* C20: the correlator changes nothing of a session but its tmux name and
\* working directory, and gives a session a tmux name only if list-panes has
\* an entry whose terminal is exactly "/dev/" followed by the session's TTY.
\* When tmux is unavailable the command still ends without error, every
\* session keeps an empty tmux name and working directory, no session is
\* reported "restart needed" (the outdated ones read "outdated, no tmux"),
\* and the restart command sends no keys.
C20_ScanWithoutTmux ==
    pc # "scan" =>
        /\ Len(sessions) = Len(found)
        /\ \A i \in 1..Len(sessions) :
              /\ sessions[i] = [found[i] EXCEPT
                                   !.TmuxSession = sessions[i].TmuxSession,
                                   !.WorkingDir = sessions[i].WorkingDir]
              /\ sessions[i].TmuxSession # "" =>
                     PaneEntryExists("/dev/" \o sessions[i].TTY)
        /\ TmuxUnavailable =>
              /\ \A i \in 1..Len(sessions) :
                    sessions[i].TmuxSession = "" /\ sessions[i].WorkingDir = ""
              /\ \A i \in 1..Len(report.rows) :
                    report.rows[i].status # "[restart needed]"
              /\ sent = <<>>
              /\ pc = "done" => exit = "nil"

\* tmux failed although a pane of the session's terminal exists: the report
\* is printed and shows the outdated session as "outdated, no tmux"
C20_Witness ==
    /\ pc = "done"
    /\ tmuxOut.err
    /\ \E i \in 1..Len(sessions) :
          /\ PaneEntryExists("/dev/" \o sessions[i].TTY)
          /\ report.rows[i].status = "[outdated, no tmux]"

----------------------------------------------------------------------------
(* the picker on its own: from NewPicker to the end of the program *)

InitPicker == Init /\ interactive

NextPicker ==
    \/ RunPicker
    \/ PickerKey
    \/ TeaQuit

PickerSpec == InitPicker /\ [][NextPicker]_vars

\* the picker has been built and no key has been delivered yet
JustBuilt == pc = "picking" /\ lastMsg = ""

\* the outdated, restartable sessions that were not classified active
RestartableIdle ==
    {i \in 1..Len(sessions) :
        OutdatedRestartable(sessions[i]) /\ ~sessions[i].HasActiveWork}

\* C15: right after construction every item that is not disabled is selected
\* (and no disabled one is), so that "enter" as the first event yields
\* exactly the outdated, restartable sessions that are not active.
C15_DefaultSelection ==
    JustBuilt =>
        /\ \A i \in 1..Len(m.items) : m.items[i].Selected = ~m.items[i].Disabled
        /\ Update(m, "enter").model.submitted
        /\ SelectedSessions(Update(m, "enter").model) = Ascending(RestartableIdle)

\* a picker just built over an active and an idle outdated session
C15_Witness ==
    /\ JustBuilt
    /\ \E i \in 1..Len(m.items) : m.items[i].Disabled
    /\ RestartableIdle # {}

\* everything of a picker but the selected flags of its items
Frame(pm) ==
    [cursor |-> pm.cursor, submitted |-> pm.submitted, cancelled |-> pm.cancelled,
     newVersion |-> pm.newVersion,
     items |-> [i \in 1..Len(pm.items) |-> [pm.items[i] EXCEPT !.Selected = FALSE]]]

\* C16: select-all ("a") selects every item that is not disabled and leaves
\* the selected flag of every disabled item as it was; select-none ("n")
\* deselects every item, disabled or not; neither changes the cursor, the
\* items themselves or the submitted and cancelled flags.
C16_SelectAllNoneFrame ==
    [][(pc = "picking" /\ lastMsg' \in {"a", "n"}) =>
          /\ Frame(m') = Frame(m)
          /\ lastMsg' = "a" =>
                \A i \in 1..Len(m.items) :
                    m'.items[i].Selected =
                        IF m.items[i].Disabled THEN m.items[i].Selected ELSE TRUE
          /\ lastMsg' = "n" =>
                \A i \in 1..Len(m.items) : ~m'.items[i].Selected]_vars

\* select-all was delivered with the cursor moved off the first item: the
\* disabled item is still unselected, the other one selected
C16_Witness ==
    /\ lastMsg = "a"
    /\ m.cursor > 0
    /\ \E i \in 1..Len(m.items) : m.items[i].Disabled /\ ~m.items[i].Selected
    /\ \E i \in 1..Len(m.items) : ~m.items[i].Disabled /\ m.items[i].Selected

\* the cursor is an index of the item list (0 when the list is empty)
CursorInRange(pm) ==
    /\ pm.cursor >= 0
    /\ Len(pm.items) > 0 => pm.cursor <= Len(pm.items) - 1
    /\ Len(pm.items) = 0 => pm.cursor = 0

\* C17: the cursor is, in every state, between 0 and N-1 for N > 0 items and
\* 0 for none; "up" at 0 and "down" at N-1 leave it where it is; and a toggle
\* always finds an item under the cursor.
C17_CursorBounded ==
    /\ CursorInRange(m)
    /\ [][/\ CursorInRange(m')
          /\ (pc = "picking" /\ lastMsg' = "up" /\ m.cursor = 0) => m'.cursor = 0
          /\ (pc = "picking" /\ lastMsg' = "down" /\ m.cursor = Len(m.items) - 1)
                => m'.cursor = m.cursor
          /\ (pc = "picking" /\ lastMsg' = " ")
                => m.cursor + 1 \in DOMAIN m.items]_vars

\* "down" was delivered to a picker of one item, whose cursor is on the last
C17_Witness ==
    /\ Len(m.items) = 1
    /\ lastMsg = "down"
    /\ m.cursor = 0

----------------------------------------------------------------------------
(* version.Compare. A version string is the sequence of its characters; the  *)
(* versions compared are written from their numeric components, so that the *)
(* order of the numbers can be held against what Compare reads back.        *)

\* the most components of a version
MaxParts == 3

\* the numbers a component can be
Components == {0, 9, 10}

\* the versions of exactly k components
RECURSIVE VersionsOf(_)
VersionsOf(k) ==
    IF k = 0 THEN {<<>>}
    ELSE {Append(v, c) : v \in VersionsOf(k - 1), c \in Components}

\* no version at all, and the versions of up to MaxParts components
Versions == UNION {VersionsOf(k) : k \in 0..MaxParts}

DigitChar(d) ==
    CASE d = 0 -> "0" [] d = 1 -> "1" [] d = 2 -> "2" [] d = 3 -> "3"
      [] d = 4 -> "4" [] d = 5 -> "5" [] d = 6 -> "6" [] d = 7 -> "7"
      [] d = 8 -> "8" [] OTHER -> "9"

\* the value of a decimal digit, -1 for any other character
DigitValue(c) ==
    CASE c = "0" -> 0 [] c = "1" -> 1 [] c = "2" -> 2 [] c = "3" -> 3
      [] c = "4" -> 4 [] c = "5" -> 5 [] c = "6" -> 6 [] c = "7" -> 7
      [] c = "8" -> 8 [] c = "9" -> 9 [] OTHER -> -1

\* the decimal digits of n
RECURSIVE Decimal(_)
Decimal(n) ==
    IF n < 10 THEN <<DigitChar(n)>> ELSE Append(Decimal(n \div 10), DigitChar(n % 10))

\* the version string of v: its components separated by dots; "" for none
RECURSIVE VersionString(_)
VersionString(v) ==
    IF Len(v) = 0 THEN <<>>
    ELSE IF Len(v) = 1 THEN Decimal(v[1])
    ELSE Decimal(v[1]) \o <<".">> \o VersionString(Tail(v))

\* strings.Split(s, sep) from character i on; cur is the part being read
RECURSIVE SplitFrom(_, _, _, _, _)
SplitFrom(s, sep, i, parts, cur) ==
    IF i > Len(s) THEN Append(parts, cur)
    ELSE IF s[i] = sep THEN SplitFrom(s, sep, i + 1, Append(parts, cur), <<>>)
    ELSE SplitFrom(s, sep, i + 1, parts, Append(cur, s[i]))

Split(s, sep) == SplitFrom(s, sep, 1, <<>>, <<>>)

\* the digits of part from character i on, read into n
RECURSIVE ScanDigits(_, _, _)
ScanDigits(part, i, n) ==
    IF i > Len(part) \/ DigitValue(part[i]) < 0 THEN n
    ELSE ScanDigits(part, i + 1, 10 * n + DigitValue(part[i]))

\* Sscanf that reads one digit only
SscanfOneDigit(part) ==
    IF Len(part) = 0 \/ DigitValue(part[1]) < 0 THEN 0 ELSE DigitValue(part[1])

\* fmt.Sscanf(part, "%d", &n) into n == 0: the leading digits; 0 if none
Sscanf(part) == ScanDigits(part, 1, 0)

\* the loop of Compare over the parts [i..], and what follows it
RECURSIVE CompareParts(_, _, _)
CompareParts(aParts, bParts, i) ==
    IF i <= Len(aParts) /\ i <= Len(bParts)
    THEN LET aNum == Sscanf(aParts[i])
             bNum == Sscanf(bParts[i])
         IN  IF aNum < bNum THEN -1
             ELSE IF aNum > bNum THEN 1
             ELSE CompareParts(aParts, bParts, i + 1)
    ELSE IF Len(aParts) < Len(bParts) THEN -1
    ELSE IF Len(aParts) > Len(bParts) THEN 1
    ELSE 0

\* Compare without the test of b == ""
CompareEmptyOnLeftOnly(a, b) ==
    IF a = b THEN 0
    ELSE IF a = <<>> THEN -1
    ELSE CompareParts(Split(a, "."), Split(b, "."), 1)

\* Compare returns -1 if a < b, 0 if a == b, 1 if a > b
Compare(a, b) ==
    IF a = b THEN 0
    ELSE IF a = <<>> THEN -1
    ELSE IF b = <<>> THEN 1
    ELSE CompareParts(Split(a, "."), Split(b, "."), 1)

\* two versions to compare
InitCompare ==
    /\ versions \in Versions \X Versions
    /\ compared = <<>>
    /\ sessions = <<>>
    /\ paneTail = <<>>
    /\ all = FALSE
    /\ interactive = FALSE
    /\ m = NoPicker
    /\ quitPending = FALSE
    /\ atConfirm = <<>>
    /\ lastMsg = ""
    /\ pc = "start"
    /\ toRestart = <<>>
    /\ qi = 0
    /\ step = 0
    /\ sent = <<>>
    /\ out = <<>>
    /\ failures = 0
    /\ exit = "running"
    /\ NoScan

\* Compare(a, b) on the two version strings
RunCompare ==
    /\ pc = "start"
    /\ compared' = <<Compare(VersionString(versions[1]), VersionString(versions[2]))>>
    /\ pc' = "done"
    /\ UNCHANGED <<sessions, paneTail, all, interactive, m, quitPending, atConfirm,
                   lastMsg, toRestart, qi, step, sent, out, failures, exit,
                   statusVars, versions>>

NextCompare == RunCompare

CompareSpec == InitCompare /\ [][NextCompare]_vars

\* the two version strings compared
StringA == VersionString(versions[1])

StringB == VersionString(versions[2])

\* every version string of the model
VersionStrings == {VersionString(w) : w \in Versions}

\* C18: Compare is antisymmetric, Compare(a, b) = -Compare(b, a), hence
\* Compare(a, a) = 0, for all version strings a and b, "" included; and it
\* is transitive: Compare(a, b) <= 0 and Compare(b, c) <= 0 imply
\* Compare(a, c) <= 0, for every version string c.
C18_AntisymmetricTransitive ==
    compared # <<>> =>
        /\ compared[1] = -Compare(StringB, StringA)
        /\ Compare(StringA, StringA) = 0
        /\ compared[1] <= 0 =>
              LET a == StringA
                  b == StringB
              IN  \A c \in VersionStrings :
                      Compare(b, c) <= 0 => Compare(a, c) <= 0

\* "" was compared with a version that is itself below a third one
C18_Witness ==
    /\ compared = <<-1>>
    /\ StringA = <<>>
    /\ \E c \in VersionStrings : Compare(StringB, c) = -1

\* u comes before v in the order of versions: no version before any version;
\* otherwise the first component that differs decides, as a number; and of two
\* versions that agree on all shared components the shorter comes first
Before(u, v) ==
    \/ Len(u) = 0 /\ Len(v) > 0
    \/ /\ Len(u) > 0
       /\ Len(v) > 0
       /\ \/ \E k \in 1..Len(u) :
                /\ k <= Len(v)
                /\ \A j \in 1..(k - 1) : u[j] = v[j]
                /\ u[k] < v[k]
          \/ /\ Len(u) < Len(v)
             /\ \A j \in 1..Len(u) : u[j] = v[j]

\* C19: Compare returns -1, 0 or 1, and it returns -1 exactly when a comes
\* before b in the order of versions and 1 exactly when b comes before a: ""
\* is below every version, components count as integers ("0.9" < "0.10"), the
\* first difference decides, and a version that continues another one is the
\* greater ("9.0" < "9.0.0").
C19_AgreesWithVersionOrder ==
    compared # <<>> =>
        /\ compared[1] \in {-1, 0, 1}
        /\ compared[1] = -1 <=> Before(versions[1], versions[2])
        /\ compared[1] = 1 <=> Before(versions[2], versions[1])

\* "0.9" was compared with "0.10"
C19_Witness ==
    /\ compared = <<-1>>
    /\ StringA = <<"0", ".", "9">>
    /\ StringB = <<"0", ".", "1", "0">>

----------------------------------------------------------------------------
(* the restart command and the status of the sessions it restarts *)

\* C21 (as claimed): without --all, keys are sent only to sessions whose
\* status is OUTDATED-restartable; a session whose running version is empty
\* (UNKNOWN) or equal to the installed one (CURRENT) receives none, also when
\* it has a tmux session name.
C21_OnlyOutdatedRestarted ==
    ~all =>
        \A i \in 1..Len(sent) :
            OutdatedRestartable(sessions[toRestart[sent[i].q]])

\* the positions of the queue whose session has the tmux session name
QueuedFor(name) ==
    {q \in 1..Len(toRestart) : sessions[toRestart[q]].TmuxSession = name}

\* the positions of the queue for which keys went to the tmux target name
RestartsSentTo(name) ==
    {sent[i].q : i \in {j \in 1..Len(sent) : sent[j].target = name}}

\* C22 (as claimed): in one invocation no two queued sessions have the same
\* tmux session name, so every tmux target receives the keys of at most one
\* restart, be the sessions a claude and a codex process of one terminal or
\* processes in two panes of one tmux session.
C22_OneRestartPerTarget ==
    \A i \in 1..Len(sessions) :
        LET name == sessions[i].TmuxSession
        IN  /\ Cardinality(QueuedFor(name)) <= 1
            /\ Cardinality(RestartsSentTo(name)) <= 1

====
